---- MODULE Spec2Model ----
(***************************************************************************)
(* nsb8.py: assembler and Intel 8008 interpreter (src/nsb8.py, lines       *)
(* 57-133).  The script is modelled from the point where assembly_code is  *)
(* set (line 53): assemble, the `if not bytecode` branch, CPU              *)
(* construction, load_program, the execute loop one iteration per step,    *)
(* and the final report.                                                   *)
(*                                                                         *)
(* A source text is a sequence of lines, a line a sequence of words; the   *)
(* word ";" stands for a ';' character set off by whitespace.  Words are   *)
(* atomic strings, so str.upper() and int() are given by their values on   *)
(* the words that occur in Sources.                                        *)
(***************************************************************************)
EXTENDS Integers, Sequences, FiniteSets, TLC

\* The cycle budget of execute(), range(300000) in the source, bounded here.
MaxCycles == 12

\* bytearray(16384)
MemSize == 16384

\* [0]*7
StackSize == 7

\* a & m for a mask m = 2^k - 1 (Python's & on an int, negative ones included)
BitAnd(a, m) == a % (m + 1)

\* a >> 8 (arithmetic shift: floor division)
Shr8(a) == a \div 256

\* 0x3FFF, 0xFF, 0x3F, 0x80
AddrMask == 16383
ByteMask == 255
HMask == 63
SignBit == 128

----------------------------------------------------------------------------
(* Source text and tokens *)

\* str.upper() on the words used
Upper(w) ==
    CASE w = "lai" -> "LAI"
      [] w = "hlt" -> "HLT"
      [] w = "jmp" -> "JMP"
      [] w = "foo" -> "FOO"
      [] w = "x" -> "X"
      [] OTHER -> w

\* int(tok): the value of every word that int() accepts; int() raises
\* ValueError on any other word
int_literal ==
    [t \in {"0", "1", "2", "3", "4", "5", "6", "7", "9", "10", "12", "14", "15",
            "18", "21", "24", "63", "64", "65", "100", "127", "128", "200", "238",
            "254", "255", "256", "300", "16383", "16384", "65535", "65536",
            "-1", "+7", "1_0"} |->
        CASE t = "0" -> 0 [] t = "1" -> 1 [] t = "2" -> 2 [] t = "3" -> 3
          [] t = "4" -> 4 [] t = "5" -> 5 [] t = "6" -> 6 [] t = "7" -> 7
          [] t = "9" -> 9 [] t = "10" -> 10 [] t = "12" -> 12 [] t = "14" -> 14
          [] t = "15" -> 15 [] t = "18" -> 18 [] t = "21" -> 21 [] t = "24" -> 24
          [] t = "63" -> 63 [] t = "64" -> 64 [] t = "65" -> 65 [] t = "100" -> 100
          [] t = "127" -> 127 [] t = "128" -> 128 [] t = "200" -> 200
          [] t = "238" -> 238 [] t = "254" -> 254 [] t = "255" -> 255
          [] t = "256" -> 256 [] t = "300" -> 300 [] t = "16383" -> 16383
          [] t = "16384" -> 16384 [] t = "65535" -> 65535 [] t = "65536" -> 65536
          [] t = "-1" -> 0 - 1 [] t = "+7" -> 7 [] t = "1_0" -> 10]

\* line.split(';')[0]: the words of a line before its first ';'
StripComment(line) ==
    LET semis == {k \in 1..Len(line) : line[k] = ";"}
        cut == IF semis = {} THEN Len(line) + 1
               ELSE CHOOSE k \in semis : \A j \in semis : k <= j
    IN SubSeq(line, 1, cut - 1)

RECURSIVE Concat(_)
Concat(lines) ==
    IF lines = <<>> THEN <<>> ELSE Head(lines) \o Concat(Tail(lines))

\* code_no_comments.upper().split()
Tokenize(code) ==
    LET stripped == [k \in 1..Len(code) |-> StripComment(code[k])]
        words == Concat(stripped)
    IN [k \in 1..Len(words) |-> Upper(words[k])]

----------------------------------------------------------------------------
(* assemble *)

\* the opcodes table: mnemonic -> <<opcode, num_operands>>
opcodes ==
    "HLT" :> <<1, 0>> @@ "LAI" :> <<6, 1>> @@ "LBI" :> <<14, 1>> @@
    "LCI" :> <<22, 1>> @@ "LDI" :> <<38, 1>> @@ "LEI" :> <<46, 1>> @@
    "LHI" :> <<54, 1>> @@ "LLI" :> <<62, 1>> @@ "LAB" :> <<193, 0>> @@
    "LBA" :> <<135, 0>> @@ "ADB" :> <<128, 0>> @@ "LAM" :> <<198, 0>> @@
    "LMA" :> <<119, 0>> @@ "JMP" :> <<68, 2>> @@ "INB" :> <<12, 0>> @@
    "DCB" :> <<13, 0>> @@ "SUI" :> <<150, 1>> @@ "JFC" :> <<64, 2>> @@
    "JTC" :> <<72, 2>> @@ "CAL" :> <<70, 2>>

\* The status strings, as the f-string's fixed text with its two holes:
\* pre and body are the literal text, s the token and n the number put in.
UnknownMsg(mnemonic) ==
    [pre |-> "Error: ", body |-> "Unknown mnemonic '{s}'", s |-> mnemonic, n |-> 0]

NeedsMsg(mnemonic, num_operands) ==
    [pre |-> "Error: ", body |-> "'{s}' needs {n} operand(s).",
     s |-> mnemonic, n |-> num_operands]

SuccessMsg(len) ==
    [pre |-> "", body |-> "Assembled successfully. Program size: {n} bytes.",
     s |-> "", n |-> len]

NoMsg == [pre |-> "", body |-> "", s |-> "", n |-> 0]

\* Python's None for the bytecode, and a list of ints
None == [none |-> TRUE, bytes |-> <<>>]
List(b) == [none |-> FALSE, bytes |-> b]

\* The local state of assemble's while loop: i (0-based), the bytecode list,
\* and how the function was left: "" (still looping), "return", "raise".
AsmStart == [i |-> 0, bytecode |-> <<>>, left |-> "", result |-> None, status |-> NoMsg]

\* a return that hands back the bytes emitted so far
AsmReturnKeepsBytes(s, bc, msg) ==
    [s EXCEPT !.left = "return", !.result = List(s.bytecode), !.status = msg]

AsmReturn(s, bc, msg) == [s EXCEPT !.left = "return", !.result = bc, !.status = msg]

AsmRaise(s) == [s EXCEPT !.left = "raise"]

\* the address emitted high byte first
OperandBytesHighFirst(num_operands, operands) ==
    IF num_operands = 1 THEN <<int_literal[operands[1]]>>
    ELSE IF num_operands = 2
         THEN LET addr == int_literal[operands[1]]
              IN <<BitAnd(Shr8(addr), ByteMask), BitAnd(addr, ByteMask)>>
         ELSE <<>>

\* The operand bytes appended for num_operands = 1 and = 2 (lines 76-78)
OperandBytes(num_operands, operands) ==
    IF num_operands = 1 THEN <<int_literal[operands[1]]>>
    ELSE IF num_operands = 2
         THEN LET addr == int_literal[operands[1]]
              IN <<BitAnd(addr, ByteMask), BitAnd(Shr8(addr), ByteMask)>>
         ELSE <<>>

\* The tokens int() is applied to for an instruction
ParsedOperands(num_operands, operands) ==
    IF num_operands = 1 \/ num_operands = 2 THEN {operands[1]} ELSE {}

\* One iteration of `while i < len(tokens)` (lines 70-79)
AsmIter(tokens, s) ==
    LET mnemonic == tokens[s.i + 1]
        i1 == s.i + 1
    IN IF mnemonic \in DOMAIN opcodes
       THEN LET opcode == opcodes[mnemonic][1]
                num_operands == opcodes[mnemonic][2]
                b1 == Append(s.bytecode, opcode)
            IN IF i1 + num_operands > Len(tokens)
               THEN AsmReturn(s, None, NeedsMsg(mnemonic, num_operands))
               ELSE LET operands == SubSeq(tokens, i1 + 1, i1 + num_operands)
                    IN IF \E t \in ParsedOperands(num_operands, operands) :
                              t \notin DOMAIN int_literal
                       THEN AsmRaise(s)
                       ELSE [s EXCEPT !.i = i1 + num_operands,
                                      !.bytecode = b1 \o OperandBytes(num_operands, operands)]
       ELSE AsmReturn(s, None, UnknownMsg(mnemonic))

\* Up to `fuel` iterations of the loop
RECURSIVE AsmRun(_, _, _)
AsmRun(tokens, s, fuel) ==
    IF s.left # "" \/ ~(s.i < Len(tokens)) \/ fuel = 0 THEN s
    ELSE AsmRun(tokens, AsmIter(tokens, s), fuel - 1)

\* The while loop, evaluated in blocks of 128 iterations
RECURSIVE AsmWhile(_, _)
AsmWhile(tokens, s) ==
    IF s.left # "" \/ ~(s.i < Len(tokens)) THEN s
    ELSE AsmWhile(tokens, AsmRun(tokens, s, 128))

\* assemble from the token list on (lines 68-80): [raised, bytecode, status];
\* raised = "ValueError" when int() raises, and then nothing is returned
AssembleTokens(tokens) ==
    LET s == AsmWhile(tokens, AsmStart)
    IN IF s.left = "raise"
       THEN [raised |-> "ValueError", bytecode |-> None, status |-> NoMsg]
       ELSE IF s.left = "return"
            THEN [raised |-> "", bytecode |-> s.result, status |-> s.status]
            ELSE [raised |-> "", bytecode |-> List(s.bytecode),
                  status |-> SuccessMsg(Len(s.bytecode))]

assemble(code) == AssembleTokens(Tokenize(code))

----------------------------------------------------------------------------
(* State *)

VARIABLES
    assembly_code,  \* the source text handed to assemble (line 127)
    phase,          \* where the script is: "assemble", "check", "load",
                    \* "execute", "report", "done", "crashed"
    raised,         \* the exception that ended the script, "" if none
    bytecode,       \* assemble's first result
    status,         \* assemble's second result
    cpu,            \* "" before cpu=Intel8008(), "Intel8008" after
    memory,         \* self.memory, indexed from 0
    regs,           \* self.regs
    flags,          \* self.flags
    pc,             \* self.pc
    sp,             \* self.sp
    stack,          \* self.stack, indexed from 0
    halted,         \* self.halted
    iter,           \* iterations of `for _ in range(...)` begun so far
    halt_status,    \* what execute() returned, "" before
    final_output    \* the printed text as its parts, <<>> before

script_vars == <<assembly_code, phase, raised, bytecode, status, halt_status, final_output>>
cpu_vars == <<cpu, memory, regs, flags, pc, sp, stack, halted, iter>>
vars == <<script_vars, cpu_vars>>

----------------------------------------------------------------------------
(* Source texts *)

OneLine(words) == <<words>>

Repeat(w, k) == [j \in 1..k |-> w]

\* k INBs and then a HLT: the HLT is executed on iteration k + 1
InbThenHlt(k) == OneLine(Repeat("INB", k) \o <<"HLT">>)

ArithValues == {"0", "1", "100", "127", "128", "200", "255"}

AdbProgram(a, b) == OneLine(<<"LAI", a, "LBI", b, "ADB", "HLT">>)

SuiProgram(a, d) == OneLine(<<"LAI", a, "SUI", d, "HLT">>)

\* store A through HL, clear A, load it back
HlProgram(h, l) ==
    OneLine(<<"LHI", h, "LLI", l, "LAI", "65", "LMA", "LAI", "0", "LAM", "HLT">>)

\* a JFC and a JTC after an ADB that sets or clears Carry
BranchProgram(a) ==
    OneLine(<<"LAI", a, "LBI", "100", "ADB", "JFC", "12", "0", "JTC", "15", "0",
              "HLT", "INB", "HLT", "HLT", "DCB", "HLT">>)

\* eight CALs, each to the next instruction
CalChain ==
    OneLine(<<"CAL", "3", "0", "CAL", "6", "0", "CAL", "9", "0", "CAL", "12", "0",
              "CAL", "15", "0", "CAL", "18", "0", "CAL", "21", "0", "CAL", "24", "0",
              "HLT">>)

FixedSources ==
    { OneLine(<<>>),                                       \* the empty text
      OneLine(<<";", "foo">>),                         \* a comment only
      OneLine(<<"LAI", "65", "HLT">>),
      << <<"lai", "65", ";", "load", "x">>, <<>>, <<"hlt", ";", "foo">> >>,
      OneLine(<<"FOO">>),
      OneLine(<<"LAI", "65", "FOO", "HLT">>),
      OneLine(<<"foo", "LAI">>),
      OneLine(<<"LAI">>),
      OneLine(<<"HLT", "JMP", "5">>),
      OneLine(<<"HLT", "JMP">>),
      OneLine(<<"LAI", "65", "SUI">>),
      OneLine(<<"LAI", "X", "HLT">>),
      OneLine(<<"LAI", "X", "FOO">>),
      OneLine(<<"JMP", "X", "0", "HLT">>),
      OneLine(<<"JMP", "3", "X", "HLT">>),
      OneLine(<<"JMP", "3", "HLT", "HLT">>),
      OneLine(<<"LAI", "300", "HLT">>),
      OneLine(<<"LAI", "-1", "HLT">>),
      OneLine(<<"LAI", "256", "HLT">>),
      OneLine(<<"LAI", "+7", "LBI", "1_0", "HLT">>),
      OneLine(<<"jmp", "0", "0">>),                    \* a tight backward JMP
      OneLine(<<"LAI", "65">>),                        \* runs on into zeroed memory
      OneLine(<<"JMP", "16383", "0">>),
      OneLine(<<"JMP", "16384", "0">>),
      OneLine(<<"JMP", "65535", "0">>),
      OneLine(<<"JMP", "65536", "0">>),
      OneLine(<<"JMP", "-1", "0">>),
      OneLine(<<"CAL", "16383", "0">>),
      OneLine(<<"JFC", "65535", "0">>),
      OneLine(<<"LAI", "255", "JMP", "1", "0">>),      \* executes the byte 255
      OneLine(<<"LHI", "14", "LLI", "238", "LAI", "65", "LMA", "HLT">>),
      OneLine(<<"LCI", "1", "LDI", "2", "LEI", "3", "LAI", "4", "LBA", "INB",
                "LAB", "HLT">>),
      OneLine(<<"DCB", "LAB", "INB", "DCB", "DCB", "HLT">>),
      OneLine(<<"LBI", "254", "INB", "INB", "INB", "HLT">>),
      OneLine(<<"LBI", "127", "INB", "DCB", "HLT">>),
      OneLine(<<"LHI", "0", "LLI", "1", "LAI", "1", "LMA", "HLT">>),  \* overwrites its own code
      OneLine(<<"JTC", "4", "0", "HLT", "INB", "HLT">>),
      CalChain }

Sources ==
    FixedSources
    \cup {InbThenHlt(k) : k \in 0..(MaxCycles + 1)}
    \cup {AdbProgram(a, b) : a \in ArithValues, b \in ArithValues}
    \cup {SuiProgram(a, d) : a \in ArithValues, d \in ArithValues}
    \cup {HlProgram(h, l) : h \in {"0", "14", "63", "64", "255"}, l \in {"0", "238", "255"}}
    \cup {BranchProgram(a) : a \in {"100", "200"}}

\* a text of MemSize + 1 tokens
LongSources == {OneLine(Repeat("HLT", MemSize + 1))}

----------------------------------------------------------------------------
(* Intel8008 *)

RegNames == {"A", "B", "C", "D", "E", "H", "L"}

\* __init__ (lines 84-85)
InitMemory == [a \in 0..(MemSize - 1) |-> 0]
InitRegs == [r \in RegNames |-> 0]
InitFlags == [f \in {"C", "Z", "S", "P"} |-> IF f \in {"Z", "P"} THEN 1 ELSE 0]
InitStack == [k \in 0..(StackSize - 1) |-> 0]

\* len(self.memory)
MemLen(mem) == Cardinality(DOMAIN mem)

\* a bytearray accepts only ints in range(0, 256)
IsByte(v) == v \in 0..255

\* self.memory[0:len(b)] = b: the slice [0:min(len(b), len(memory))] is replaced
\* by the whole of b, so a longer b lengthens the bytearray
SliceAssign(mem, b) ==
    LET n == Len(b)
        m == MemLen(mem)
        newlen == IF n > m THEN n ELSE m
    IN [a \in 0..(newlen - 1) |-> IF a < n THEN b[a + 1] ELSE mem[a]]

\* an HL address that keeps only five bits of H
get_hl_5bit == BitAnd(regs["H"], 31) * 256 + regs["L"]

get_hl == BitAnd(regs["H"], HMask) * 256 + regs["L"]

read_mem(a) == memory[BitAnd(a, AddrMask)]

write_mem(a, v) == [memory EXCEPT ![BitAnd(a, AddrMask)] = BitAnd(v, ByteMask)]

\* bin(v).count('1')
RECURSIVE CountOnes(_)
CountOnes(v) == IF v = 0 THEN 0 ELSE (v % 2) + CountOnes(v \div 2)

\* update_flags(v): the flags after it; Carry is left as given
update_flags(f, v) ==
    LET w == BitAnd(v, ByteMask)
    IN [f EXCEPT !["Z"] = IF w = 0 THEN 1 ELSE 0,
                 !["S"] = IF (w \div SignBit) % 2 = 1 THEN 1 ELSE 0,
                 !["P"] = IF CountOnes(w) % 2 = 0 THEN 1 ELSE 0]

\* the load-immediate opcodes and their registers (lines 97-103)
LoadImmReg ==
    6 :> "A" @@ 14 :> "B" @@ 22 :> "C" @@ 38 :> "D" @@ 46 :> "E" @@ 54 :> "H" @@ 62 :> "L"

BranchOps == {68, 64, 72, 70}

KnownOps == {1, 193, 135, 128, 198, 119, 12, 13, 150} \cup DOMAIN LoadImmReg \cup BranchOps

----------------------------------------------------------------------------
(* The script, lines 127-136 *)

NoCpu ==
    /\ cpu = "" /\ memory = <<>> /\ regs = <<>> /\ flags = <<>>
    /\ pc = 0 /\ sp = 0 /\ stack = <<>> /\ halted = FALSE /\ iter = 0

InitWith(texts) ==
    /\ assembly_code \in texts
    /\ phase = "assemble"
    /\ raised = ""
    /\ bytecode = None
    /\ status = NoMsg
    /\ halt_status = ""
    /\ final_output = <<>>
    /\ NoCpu

Init == InitWith(Sources)

\* bytecode, status = assemble(assembly_code)
Assemble ==
    /\ phase = "assemble"
    /\ LET r == assemble(assembly_code)
       IN IF r.raised # ""
          THEN /\ raised' = r.raised
               /\ phase' = "crashed"
               /\ UNCHANGED <<bytecode, status>>
          ELSE /\ bytecode' = r.bytecode
               /\ status' = r.status
               /\ phase' = "check"
               /\ UNCHANGED raised
    /\ UNCHANGED <<assembly_code, halt_status, final_output, cpu_vars>>

\* `not bytecode`: true of None and of the empty list
Falsy(bc) == bc.none \/ bc.bytes = <<>>

\* if not bytecode: final_output = status; print(final_output)
StatusOnly ==
    /\ phase = "check"
    /\ Falsy(bytecode)
    /\ final_output' = <<status>>
    /\ phase' = "done"
    /\ UNCHANGED <<assembly_code, raised, bytecode, status, halt_status, cpu_vars>>

\* cpu=Intel8008()
Construct ==
    /\ phase = "check"
    /\ ~Falsy(bytecode)
    /\ cpu' = "Intel8008"
    /\ memory' = InitMemory
    /\ regs' = InitRegs
    /\ flags' = InitFlags
    /\ pc' = 0 /\ sp' = 0
    /\ stack' = InitStack
    /\ halted' = FALSE
    /\ phase' = "load"
    /\ UNCHANGED <<assembly_code, raised, bytecode, status, halt_status, final_output, iter>>

\* cpu.load_program(bytecode)
load_program ==
    /\ phase = "load"
    /\ IF \A k \in 1..Len(bytecode.bytes) : IsByte(bytecode.bytes[k])
       THEN /\ memory' = SliceAssign(memory, bytecode.bytes)
            /\ phase' = "execute"
            /\ UNCHANGED raised
       ELSE /\ raised' = "ValueError"
            /\ phase' = "crashed"
            /\ UNCHANGED memory
    /\ UNCHANGED <<assembly_code, bytecode, status, halt_status, final_output,
                   cpu, regs, flags, pc, sp, stack, halted, iter>>

----------------------------------------------------------------------------
(* execute, lines 92-121: one loop iteration per step *)

\* the two strings execute() returns (lines 120-121)
HaltedNormally == "Execution halted normally."
CycleLimitWarning == "Warning: Execution hit max cycle limit."

\* a loop that gives one value too many
InRangeOneMore == iter <= MaxCycles

\* range(MaxCycles) has another value to give
InRange == iter < MaxCycles

\* a loop without `if self.halted: break`
FetchingThoughHalted == phase = "execute" /\ InRange

\* the loop is at an instruction: not exhausted, and `if self.halted: break`
\* did not leave it
Fetching == phase = "execute" /\ InRange /\ ~halted

\* op=self.read_mem(self.pc)
op == read_mem(pc)

\* what every iteration leaves alone, and the iteration count
Cycle ==
    /\ iter' = iter + 1
    /\ UNCHANGED <<script_vars, cpu>>

\* 0x01
HLT ==
    /\ Fetching /\ op = 1
    /\ halted' = TRUE
    /\ pc' = pc + 1
    /\ Cycle
    /\ UNCHANGED <<memory, regs, flags, sp, stack>>

\* 0x06 0x0E 0x16 0x26 0x2E 0x36 0x3E
LoadImm ==
    /\ Fetching /\ op \in DOMAIN LoadImmReg
    /\ regs' = [regs EXCEPT ![LoadImmReg[op]] = read_mem(pc + 1)]
    /\ pc' = pc + 2
    /\ Cycle
    /\ UNCHANGED <<memory, flags, sp, stack, halted>>

\* 0xC1
LAB ==
    /\ Fetching /\ op = 193
    /\ regs' = [regs EXCEPT !["A"] = regs["B"]]
    /\ pc' = pc + 1
    /\ Cycle
    /\ UNCHANGED <<memory, flags, sp, stack, halted>>

\* 0x87
LBA ==
    /\ Fetching /\ op = 135
    /\ regs' = [regs EXCEPT !["B"] = regs["A"]]
    /\ pc' = pc + 1
    /\ Cycle
    /\ UNCHANGED <<memory, flags, sp, stack, halted>>

\* an ADB that stores the unmasked sum
ADBUnmasked ==
    /\ Fetching /\ op = 128
    /\ LET r == regs["A"] + regs["B"]
       IN /\ regs' = [regs EXCEPT !["A"] = r]
          /\ flags' = update_flags([flags EXCEPT !["C"] = IF r > 255 THEN 1 ELSE 0], r)
    /\ pc' = pc + 1
    /\ Cycle
    /\ UNCHANGED <<memory, sp, stack, halted>>

\* an ADB that sets Carry from r >= 255
ADBCarryAt255 ==
    /\ Fetching /\ op = 128
    /\ LET r == regs["A"] + regs["B"]
           a == BitAnd(r, ByteMask)
       IN /\ regs' = [regs EXCEPT !["A"] = a]
          /\ flags' = update_flags([flags EXCEPT !["C"] = IF r >= 255 THEN 1 ELSE 0], a)
    /\ pc' = pc + 1
    /\ Cycle
    /\ UNCHANGED <<memory, sp, stack, halted>>

\* 0x80
ADB ==
    /\ Fetching /\ op = 128
    /\ LET r == regs["A"] + regs["B"]
           a == BitAnd(r, ByteMask)
       IN /\ regs' = [regs EXCEPT !["A"] = a]
          /\ flags' = update_flags([flags EXCEPT !["C"] = IF r > 255 THEN 1 ELSE 0], a)
    /\ pc' = pc + 1
    /\ Cycle
    /\ UNCHANGED <<memory, sp, stack, halted>>

\* 0xC6
LAM ==
    /\ Fetching /\ op = 198
    /\ regs' = [regs EXCEPT !["A"] = read_mem(get_hl)]
    /\ pc' = pc + 1
    /\ Cycle
    /\ UNCHANGED <<memory, flags, sp, stack, halted>>

\* 0x77
LMA ==
    /\ Fetching /\ op = 119
    /\ memory' = write_mem(get_hl, regs["A"])
    /\ pc' = pc + 1
    /\ Cycle
    /\ UNCHANGED <<regs, flags, sp, stack, halted>>

\* the address a branch instruction reads: a=(h<<8)|l with l, h the two
\* bytes after the opcode
BranchTarget == read_mem(pc + 2) * 256 + read_mem(pc + 1)

\* JFC and JTC with their conditions exchanged
BranchTakenSwapped ==
    \/ op = 68
    \/ op = 64 /\ flags["C"] = 1
    \/ op = 72 /\ flags["C"] = 0
    \/ op = 70

\* j, decided by lines 111-114
BranchTaken ==
    \/ op = 68
    \/ op = 64 /\ flags["C"] = 0
    \/ op = 72 /\ flags["C"] = 1
    \/ op = 70

\* a CAL that pushes the address of its own opcode
BranchPushesOwnAddress ==
    /\ Fetching /\ op \in BranchOps
    /\ IF op = 70
       THEN /\ stack' = [stack EXCEPT ![sp] = pc]
            /\ sp' = (sp + 1) % StackSize
       ELSE UNCHANGED <<stack, sp>>
    /\ pc' = IF BranchTaken THEN BranchTarget ELSE (pc + 1) + 2
    /\ Cycle
    /\ UNCHANGED <<memory, regs, flags, halted>>

\* 0x44 0x40 0x48 0x46
Branch ==
    /\ Fetching /\ op \in BranchOps
    /\ IF op = 70
       THEN /\ stack' = [stack EXCEPT ![sp] = (pc + 1) + 2]
            /\ sp' = (sp + 1) % StackSize
       ELSE UNCHANGED <<stack, sp>>
    /\ pc' = IF BranchTaken THEN BranchTarget ELSE (pc + 1) + 2
    /\ Cycle
    /\ UNCHANGED <<memory, regs, flags, halted>>

\* 0x0C
INB ==
    /\ Fetching /\ op = 12
    /\ LET b == BitAnd(regs["B"] + 1, ByteMask)
       IN /\ regs' = [regs EXCEPT !["B"] = b]
          /\ flags' = update_flags(flags, b)
    /\ pc' = pc + 1
    /\ Cycle
    /\ UNCHANGED <<memory, sp, stack, halted>>

\* a DCB that clears Carry
DCBClearsCarry ==
    /\ Fetching /\ op = 13
    /\ LET b == BitAnd(regs["B"] - 1, ByteMask)
       IN /\ regs' = [regs EXCEPT !["B"] = b]
          /\ flags' = [update_flags(flags, b) EXCEPT !["C"] = 0]
    /\ pc' = pc + 1
    /\ Cycle
    /\ UNCHANGED <<memory, sp, stack, halted>>

\* 0x0D
DCB ==
    /\ Fetching /\ op = 13
    /\ LET b == BitAnd(regs["B"] - 1, ByteMask)
       IN /\ regs' = [regs EXCEPT !["B"] = b]
          /\ flags' = update_flags(flags, b)
    /\ pc' = pc + 1
    /\ Cycle
    /\ UNCHANGED <<memory, sp, stack, halted>>

\* a SUI that sets Carry from r <= 0
SUICarryOnZero ==
    /\ Fetching /\ op = 150
    /\ LET d == read_mem(pc + 1)
           r == regs["A"] - d
           a == BitAnd(r, ByteMask)
       IN /\ regs' = [regs EXCEPT !["A"] = a]
          /\ flags' = update_flags([flags EXCEPT !["C"] = IF r <= 0 THEN 1 ELSE 0], a)
    /\ pc' = pc + 2
    /\ Cycle
    /\ UNCHANGED <<memory, sp, stack, halted>>

\* 0x96
SUI ==
    /\ Fetching /\ op = 150
    /\ LET d == read_mem(pc + 1)
           r == regs["A"] - d
           a == BitAnd(r, ByteMask)
       IN /\ regs' = [regs EXCEPT !["A"] = a]
          /\ flags' = update_flags([flags EXCEPT !["C"] = IF r < 0 THEN 1 ELSE 0], a)
    /\ pc' = pc + 2
    /\ Cycle
    /\ UNCHANGED <<memory, sp, stack, halted>>

\* an unknown byte that is skipped together with the byte after it
OtherOpSkipsTwo ==
    /\ Fetching /\ op \notin KnownOps
    /\ pc' = pc + 2
    /\ Cycle
    /\ UNCHANGED <<memory, regs, flags, sp, stack, halted>>

\* any other byte: no branch of the if/elif chain is taken
OtherOp ==
    /\ Fetching /\ op \notin KnownOps
    /\ pc' = pc + 1
    /\ Cycle
    /\ UNCHANGED <<memory, regs, flags, sp, stack, halted>>

\* if self.halted: break, then return "Execution halted normally."
Break ==
    /\ phase = "execute" /\ InRange /\ halted
    /\ halt_status' = HaltedNormally
    /\ phase' = "report"
    /\ UNCHANGED <<assembly_code, raised, bytecode, status, final_output, cpu_vars>>

\* the range is exhausted: the for loop's else clause
Exhausted ==
    /\ phase = "execute" /\ ~InRange
    /\ halt_status' = CycleLimitWarning
    /\ phase' = "report"
    /\ UNCHANGED <<assembly_code, raised, bytecode, status, final_output, cpu_vars>>

----------------------------------------------------------------------------
(* get_screen and the report, lines 122-133 *)

\* chr(c) for 32 <= c < 127; "(grave)" is chr(96), which a string here
\* cannot hold
Printable ==
    <<" ", "!", "\"", "#", "$", "%", "&", "'", "(", ")", "*", "+", ",", "-", ".", "/",
      "0", "1", "2", "3", "4", "5", "6", "7", "8", "9", ":", ";", "<", "=", ">", "?",
      "@", "A", "B", "C", "D", "E", "F", "G", "H", "I", "J", "K", "L", "M", "N", "O",
      "P", "Q", "R", "S", "T", "U", "V", "W", "X", "Y", "Z", "[", "\\", "]", "^", "_",
      "(grave)", "a", "b", "c", "d", "e", "f", "g", "h", "i", "j", "k", "l", "m", "n", "o",
      "p", "q", "r", "s", "t", "u", "v", "w", "x", "y", "z", "{", "|", "}", "~">>

\* a screen that starts one cell late
ScreenFromNextCell == 3822 + 1

\* 0xEEE and 0xFFF+1, the bounds of the slice
ScreenFrom == 3822
ScreenTo == 4096

\* get_screen: one glyph per byte of memory[0xEEE:0xFFF+1]
get_screen ==
    [k \in 1..(ScreenTo - ScreenFrom) |->
        LET c == memory[ScreenFrom + k - 1]
        IN IF 32 <= c /\ c < 127 THEN Printable[c - 31] ELSE "Â·"]

\* the f-string of lines 132-133, part by part
Report ==
    <<status, halt_status, "---", "Screen (0xEEE-FFF):", get_screen, "---",
      [regs |-> regs, czsp |-> <<flags["C"], flags["Z"], flags["S"], flags["P"]>>]>>

\* final_output=(...); print(final_output)
PrintReport ==
    /\ phase = "report"
    /\ final_output' = Report
    /\ phase' = "done"
    /\ UNCHANGED <<assembly_code, raised, bytecode, status, halt_status, cpu_vars>>

Next ==
    \/ Assemble \/ StatusOnly \/ Construct \/ load_program
    \/ HLT \/ LoadImm \/ LAB \/ LBA \/ ADB \/ LAM \/ LMA \/ Branch
    \/ INB \/ DCB \/ SUI \/ OtherOp
    \/ Break \/ Exhausted \/ PrintReport

Spec == Init /\ [][Next]_vars

\* the same script, texts longer than the memory included
InitLong == InitWith(Sources \cup LongSources)

SpecLong == InitLong /\ [][Next]_vars

----------------------------------------------------------------------------
(* Properties *)

\* execute() has returned
Returned == halt_status # ""

\* the script has ended, by print or by an uncaught exception
Ended == phase \in {"done", "crashed"}

\* C1: execute() terminates after at most MaxCycles iterations of its loop:
\* the iteration count never exceeds MaxCycles and every step of execute()
\* either is one more iteration or returns.  A run in which HLT was never
\* executed makes exactly MaxCycles iterations and returns the cycle-limit
\* warning.
C1_ExecuteTerminates ==
    /\ [](iter <= MaxCycles)
    /\ [](Returned /\ ~halted => iter = MaxCycles /\ halt_status = CycleLimitWarning)
    /\ [][phase = "execute" =>
            \/ phase' = "execute" /\ iter' = iter + 1
            \/ phase' = "report" /\ iter' = iter]_vars

C1_Witness ==
    /\ phase = "done" /\ ~halted /\ iter = MaxCycles
    /\ halt_status = CycleLimitWarning
    /\ Tokenize(assembly_code) = <<"JMP", "0", "0">>

\* C2: when execute() has returned, the reason is "halted normally" if Halted
\* is true, and the warning only if the budget ran out with Halted false.
C2_ReasonFollowsHalted ==
    Returned =>
        /\ halted => halt_status = HaltedNormally
        /\ halt_status = CycleLimitWarning => ~halted /\ iter = MaxCycles

\* assemble has been called and has returned or raised
Assembled == phase # "assemble"

\* the CPU was never constructed, loaded or run
CpuUntouched == NoCpu /\ halt_status = ""

\* the parts of final_output when it is the full report: the success status,
\* a halt reason, the screen and the register and flag dump
IsReport(out) ==
    /\ Len(out) = 7
    /\ out[1].pre = "" /\ out[1].body = SuccessMsg(0).body
    /\ out[2] \in {HaltedNormally, CycleLimitWarning}
    /\ Len(out[5]) = 274
    /\ DOMAIN out[7].regs = RegNames /\ Len(out[7].czsp) = 4

\* final_output when it is one diagnostic that begins with "Error: "
IsErrorDiagnostic(out) == Len(out) = 1 /\ out[1].pre = "Error: "

\* C3: whatever the source text, the script ends by printing either the full
\* report (when assembly succeeded) or one diagnostic beginning with "Error: "
\* (when it failed), and nothing else.
C3_TwoOutputShapes ==
    phase = "done" =>
        \/ /\ IsReport(final_output)
           /\ raised = "" /\ ~bytecode.none
        \/ /\ IsErrorDiagnostic(final_output)
           /\ bytecode.none

----------------------------------------------------------------------------
(* The instruction layout of a token list, as the claims read it *)

Operands(m) == opcodes[m][2]

\* the token fails in mnemonic position p: it is no mnemonic, or too few
\* tokens follow it
FailsAt(tokens, p) ==
    \/ tokens[p] \notin DOMAIN opcodes
    \/ p + Operands(tokens[p]) > Len(tokens)

\* the mnemonic positions from p on, up to and including the first that fails
RECURSIVE InstrStarts(_, _)
InstrStarts(tokens, p) ==
    IF p > Len(tokens) THEN {}
    ELSE IF FailsAt(tokens, p) THEN {p}
    ELSE {p} \cup InstrStarts(tokens, p + 1 + Operands(tokens[p]))

\* the positions of the operands of the well-formed instruction at p
OperandPositions(tokens, p) ==
    IF FailsAt(tokens, p) THEN {} ELSE (p + 1)..(p + Operands(tokens[p]))

\* the diagnostic the claim gives for a failure at p
DiagnosticAt(tokens, p) ==
    IF tokens[p] \notin DOMAIN opcodes THEN UnknownMsg(tokens[p])
    ELSE NeedsMsg(tokens[p], Operands(tokens[p]))

\* C4: when the leftmost failing instruction has an unknown mnemonic or too few
\* operands, assemble returns None with the diagnostic for that instruction
\* (unless int() raised on an operand of an instruction before it), no
\* bytecode is kept, and the CPU is never constructed, loaded or run.
C4_AssemblyErrors ==
    LET tokens == Tokenize(assembly_code)
        starts == InstrStarts(tokens, 1)
    IN Assembled =>
        \A p \in starts : FailsAt(tokens, p) =>
            /\ \/ /\ raised = ""
                  /\ bytecode = None
                  /\ status = DiagnosticAt(tokens, p)
               \/ /\ raised = "ValueError"
                  /\ \E q \in starts : q < p /\
                        \E o \in OperandPositions(tokens, q) :
                            tokens[o] \notin DOMAIN int_literal
            /\ CpuUntouched
            /\ phase \in {"check", "done", "crashed"}
            /\ phase = "done" => final_output = <<status>>

C4_Witness ==
    /\ phase = "done"
    /\ Tokenize(assembly_code) = <<"LAI", "65", "FOO", "HLT">>
    /\ status = UnknownMsg("FOO")
    /\ bytecode = None

\* C5: in a successful assembly every operand token, both operands of
\* JMP/JFC/JTC/CAL included, parses as an integer.
C5_OperandsAreIntegers ==
    LET tokens == Tokenize(assembly_code)
        starts == InstrStarts(tokens, 1)
    IN Assembled /\ raised = "" /\ ~bytecode.none =>
        \A p \in starts : \A o \in OperandPositions(tokens, p) :
            tokens[o] \in DOMAIN int_literal

\* C6: on success the bytecode holds, at each mnemonic's position, its opcode,
\* followed by the literal of a 1-operand mnemonic or by the address of a
\* 2-operand one as two bytes, low then high; it is as long as the token list
\* and the status reports that length.
C6_Encoding ==
    LET tokens == Tokenize(assembly_code)
        starts == InstrStarts(tokens, 1)
        b == bytecode.bytes
    IN Assembled /\ raised = "" /\ ~bytecode.none =>
        /\ Len(b) = Len(tokens)
        /\ status = SuccessMsg(Len(tokens))
        /\ \A p \in starts :
            /\ b[p] = opcodes[tokens[p]][1]
            /\ Operands(tokens[p]) = 1 => b[p + 1] = int_literal[tokens[p + 1]]
            /\ Operands(tokens[p]) = 2 =>
                LET addr == int_literal[tokens[p + 1]]
                IN /\ b[p + 1] = addr % 256
                   /\ b[p + 2] = (addr \div 256) % 256
        /\ tokens = <<"LAI", "65", "HLT">> => b = <<6, 65, 1>> /\ status.n = 3

C6_Witness ==
    /\ Assembled /\ raised = ""
    /\ Tokenize(assembly_code) = <<"JMP", "65535", "0">>
    /\ bytecode = List(<<68, 255, 255>>)
    /\ status = SuccessMsg(3)

----------------------------------------------------------------------------
(* The CPU's state *)

Constructed == cpu = "Intel8008"

\* C7: the program counter is always a 14-bit address.
C7_PcIs14Bit == Constructed => pc \in 0..16383

\* the cells the coming iteration may touch: the opcode, its operand bytes and
\* the cell HL names
TouchedCells ==
    {BitAnd(pc, AddrMask), BitAnd(pc + 1, AddrMask), BitAnd(pc + 2, AddrMask),
     BitAnd(get_hl, AddrMask)}

\* C8: during execution memory has exactly 16384 cells, each a byte, and every
\* cell the cycle touches is one of them.
C8_MemoryShape ==
    phase = "execute" =>
        /\ DOMAIN memory = 0..16383
        /\ \A a \in DOMAIN memory : memory[a] \in 0..255
        /\ TouchedCells \subseteq 0..16383

\* C9: right after load_program(b) on the fresh CPU, memory holds b in its
\* first len(b) cells and 0 in all others, has 16384 cells, and registers,
\* flags, PC, stack, stack pointer and Halted are as __init__ left them.
C9_LoadProgramEffect ==
    LET b == bytecode.bytes
    IN phase = "execute" /\ iter = 0 =>
        /\ \A k \in 0..(Len(b) - 1) : memory[k] = b[k + 1]
        /\ \A a \in DOMAIN memory : a >= Len(b) => memory[a] = 0
        /\ MemLen(memory) = 16384
        /\ \A r \in RegNames : regs[r] = 0
        /\ flags = [f \in {"C", "Z", "S", "P"} |-> IF f \in {"Z", "P"} THEN 1 ELSE 0]
        /\ pc = 0 /\ sp = 0 /\ halted = FALSE
        /\ stack = [k \in 0..6 |-> 0]

\* C10: the seven registers always hold bytes and the four flags bits; the
\* CPU starts with every register 0, Zero = Parity = 1 and Carry = Sign = 0.
C10_RegistersAndFlags ==
    Constructed =>
        /\ DOMAIN regs = {"A", "B", "C", "D", "E", "H", "L"}
        /\ \A r \in DOMAIN regs : regs[r] \in 0..255
        /\ DOMAIN flags = {"C", "Z", "S", "P"}
        /\ \A f \in DOMAIN flags : flags[f] \in {0, 1}
        /\ phase = "load" \/ (phase = "execute" /\ iter = 0) =>
            /\ \A r \in DOMAIN regs : regs[r] = 0
            /\ flags["Z"] = 1 /\ flags["P"] = 1
            /\ flags["C"] = 0 /\ flags["S"] = 0

\* after ADB on A = 200, B = 100
C10_Witness ==
    /\ phase = "execute"
    /\ regs["A"] = 44 /\ regs["B"] = 100
    /\ flags["C"] = 1 /\ flags["Z"] = 0

----------------------------------------------------------------------------
(* The instructions *)

\* the number of 1 bits among the low eight bits of v
OneBits(v) == Cardinality({k \in 0..7 : (v \div (2 ^ k)) % 2 = 1})

\* Zero, Sign and Parity of f are those the flag rule gives for the byte v
FlagsFollow(f, v) ==
    /\ f["Z"] = 1 <=> v = 0
    /\ f["S"] = 1 <=> v >= 128
    /\ f["P"] = 1 <=> OneBits(v) % 2 = 0
    /\ \A x \in {"Z", "S", "P"} : f[x] \in {0, 1}

\* the iteration that begins in this state executes the opcode o
Executing(o) == Fetching /\ op = o

\* C11: ADB sets Carry to 1 iff A + B > 255, A to (A + B) mod 256, Zero, Sign
\* and Parity from the new A, and changes no other register; A = 200,
\* B = 100 gives A = 44, Carry 1, Zero 0, Sign 0, Parity 0.
C11_ADB ==
    [][Executing(128) =>
        LET a == regs["A"]
            b == regs["B"]
        IN /\ flags'["C"] = (IF a + b > 255 THEN 1 ELSE 0)
           /\ regs'["A"] = (a + b) % 256
           /\ FlagsFollow(flags', regs'["A"])
           /\ \A r \in RegNames \ {"A"} : regs'[r] = regs[r]
           /\ a = 200 /\ b = 100 =>
                /\ regs'["A"] = 44
                /\ flags'["C"] = 1 /\ flags'["Z"] = 0
                /\ flags'["S"] = 0 /\ flags'["P"] = 0]_vars

C11_Witness ==
    /\ phase = "execute" /\ iter = 3
    /\ Tokenize(assembly_code) = <<"LAI", "200", "LBI", "100", "ADB", "HLT">>
    /\ regs["A"] = 44 /\ regs["B"] = 100
    /\ flags["C"] = 1 /\ flags["P"] = 0

\* C12: SUI d sets Carry to 1 iff A < d, A to (A - d) mod 256, Zero, Sign and
\* Parity from the new A, and PC to the opcode's address plus 2.
C12_SUI ==
    [][Executing(150) =>
        LET a == regs["A"]
            d == memory[(pc + 1) % 16384]
        IN /\ flags'["C"] = (IF a < d THEN 1 ELSE 0)
           /\ regs'["A"] = (a - d) % 256
           /\ FlagsFollow(flags', regs'["A"])
           /\ pc' = pc + 2]_vars

\* after SUI 200 on A = 100
C12_Witness ==
    /\ phase = "execute" /\ iter = 2
    /\ Tokenize(assembly_code) = <<"LAI", "100", "SUI", "200", "HLT">>
    /\ regs["A"] = 156 /\ flags["C"] = 1 /\ flags["S"] = 1 /\ pc = 4

\* the address the two bytes after the opcode at pc encode, low byte first
TargetAt(p) == memory[(p + 2) % 16384] * 256 + memory[(p + 1) % 16384]

\* C13: a branch at address p sets PC to its target when it is JMP or CAL,
\* when it is JFC and Carry = 0, or JTC and Carry = 1, and to p + 3 otherwise;
\* it changes no register, flag or memory cell.
C13_Branches ==
    [][Fetching /\ op \in {68, 64, 72, 70} =>
        LET taken == \/ op \in {68, 70}
                     \/ op = 64 /\ flags["C"] = 0
                     \/ op = 72 /\ flags["C"] = 1
        IN /\ pc' = (IF taken THEN TargetAt(pc) ELSE pc + 3)
           /\ regs' = regs /\ flags' = flags /\ memory' = memory]_vars

\* a JTC with Carry = 0 has fallen through
C13_Witness ==
    /\ phase = "execute" /\ iter = 1 /\ pc = 3
    /\ Tokenize(assembly_code) = <<"JTC", "4", "0", "HLT", "INB", "HLT">>

\* C14: a CAL at address p writes p + 3 into stack[sp] and then makes sp
\* (sp + 1) mod 7; no other step changes the stack or sp; sp is always in
\* 0..6.  After the eight CALs of CalChain sp is 8 mod 7 and the eighth return
\* address has replaced the first in slot 0.
C14_CallStack ==
    /\ [](Constructed => sp \in 0..6 /\ DOMAIN stack = 0..6)
    /\ [][Executing(70) =>
            /\ stack' = [stack EXCEPT ![sp] = pc + 3]
            /\ sp' = (sp + 1) % 7]_vars
    /\ [][Constructed /\ ~Executing(70) => stack' = stack /\ sp' = sp]_vars
    /\ [](assembly_code = CalChain /\ halted =>
            /\ iter = 9 /\ sp = 1
            /\ stack = [k \in 0..6 |-> IF k = 0 THEN 24 ELSE 3 * (k + 1)])

C14_Witness ==
    /\ assembly_code = CalChain /\ halted /\ phase = "done"
    /\ sp = 1 /\ stack[0] = 24 /\ stack[1] = 6

\* the twenty bytes the instruction table of the emulator names
Implemented ==
    {1, 6, 14, 22, 38, 46, 54, 62, 193, 135, 128, 198, 119, 68, 64, 72, 70, 12, 13, 150}

\* C15: a byte outside the instruction table is a no-op that advances PC by 1,
\* counts as one iteration, and changes no register, flag, memory cell, stack
\* slot, sp or Halted; execution goes on (no status is returned by that step).
C15_UnknownOpcode ==
    [][Fetching /\ op \notin Implemented =>
        /\ pc' = pc + 1
        /\ iter' = iter + 1
        /\ memory' = memory /\ regs' = regs /\ flags' = flags
        /\ stack' = stack /\ sp' = sp /\ halted' = halted
        /\ phase' = "execute" /\ halt_status' = "" /\ raised' = raised]_vars

\* two zero bytes after LAI 65 have been stepped over
C15_Witness ==
    /\ phase = "execute" /\ iter = 3 /\ pc = 4
    /\ Tokenize(assembly_code) = <<"LAI", "65">>
    /\ regs["A"] = 65 /\ memory[2] = 0 /\ memory[3] = 0

\* (H mod 64) * 256 + L
HLAddress == (regs["H"] % 64) * 256 + regs["L"]

\* C16: LMA stores A at (H mod 64) * 256 + L and changes no other cell, no
\* register and no flag; LAM loads A from that address and changes nothing
\* else; the address is always in 0..16383; so the program that stores 65,
\* clears A and loads it back ends with A = 65.
C16_MemoryThroughHL ==
    /\ [](Constructed => HLAddress \in 0..16383)
    /\ [][Executing(119) =>
            /\ memory' = [memory EXCEPT ![HLAddress] = regs["A"]]
            /\ regs' = regs /\ flags' = flags /\ pc' = pc + 1]_vars
    /\ [][Executing(198) =>
            /\ regs' = [regs EXCEPT !["A"] = memory[HLAddress]]
            /\ memory' = memory /\ flags' = flags /\ pc' = pc + 1]_vars
    /\ [](LET tk == Tokenize(assembly_code)
          IN /\ Len(tk) = 11 /\ tk[7] = "LMA" /\ tk[10] = "LAM"
             /\ Constructed /\ halted
             => regs["A"] = 65 /\ memory[HLAddress] = 65 /\ iter = 7)

\* H = 63 and L = 238: the cell 0x3FEE holds the 65 and A has it back
C16_Witness ==
    /\ assembly_code = HlProgram("63", "238") /\ halted
    /\ regs["H"] = 63 /\ memory[16366] = 65 /\ regs["A"] = 65

\* the flags of a cold reset
ResetFlags == [f \in {"C", "Z", "S", "P"} |-> IF f \in {"Z", "P"} THEN 1 ELSE 0]

ScreenDemo == OneLine(<<"LHI", "14", "LLI", "238", "LAI", "65", "LMA", "HLT">>)

\* C17: the run of LHI 14 LLI 238 LAI 65 LMA HLT ends halted after five
\* instructions with the reason "Execution halted normally.", 65 in
\* memory[0x0EEE], a screen that begins with 'A', H = 14, L = 238, A = 65 and
\* the flags of a reset.
C17_ScreenDemo ==
    assembly_code = ScreenDemo =>
        /\ phase \notin {"crashed"}
        /\ iter <= 5
        /\ phase \in {"report", "done"} =>
            /\ halted /\ iter = 5
            /\ halt_status = "Execution halted normally."
            /\ memory[3822] = 65
            /\ regs["H"] = 14 /\ regs["L"] = 238 /\ regs["A"] = 65
            /\ flags = ResetFlags
        /\ phase = "done" =>
            /\ Len(final_output) = 7
            /\ final_output[2] = "Execution halted normally."
            /\ Len(final_output[5]) = 274
            /\ final_output[5][1] = "A"
            /\ final_output[7].regs["A"] = 65
            /\ final_output[7].czsp = <<0, 1, 0, 1>>

C17_Witness ==
    /\ assembly_code = ScreenDemo /\ phase = "done"
    /\ final_output[5][1] = "A" /\ halted /\ iter = 5

\* the machine state an instruction can change
Machine == <<pc, regs, flags, memory, stack, sp>>

\* C18: HLT sets Halted, advances PC by 1 and changes nothing else; once
\* Halted is true no opcode is fetched and PC, registers, flags, memory, stack
\* and sp stay as they are; Halted never goes back to false.
C18_HaltedIsTerminal ==
    /\ [][Executing(1) =>
            /\ halted' /\ pc' = pc + 1
            /\ <<regs, flags, memory, stack, sp>>' = <<regs, flags, memory, stack, sp>>]_vars
    /\ [][halted => halted' /\ Machine' = Machine /\ iter' = iter]_vars

\* the run of the screen program has been reported, five instructions in
C18_Witness ==
    /\ halted /\ phase = "report" /\ iter = 5 /\ pc = 8
    /\ assembly_code = ScreenDemo

\* C19: only ADB, SUI, INB and DCB change flags; INB and DCB make B
\* (B + 1) mod 256 and (B - 1) mod 256, set Zero, Sign and Parity from the new
\* B and leave Carry as it was.
C19_FlagWriters ==
    /\ [][Fetching /\ op \notin {128, 150, 12, 13} => flags' = flags]_vars
    /\ [][Executing(12) =>
            /\ regs' = [regs EXCEPT !["B"] = (regs["B"] + 1) % 256]
            /\ FlagsFollow(flags', regs'["B"])
            /\ flags'["C"] = flags["C"]]_vars
    /\ [][Executing(13) =>
            /\ regs' = [regs EXCEPT !["B"] = (regs["B"] - 1) % 256]
            /\ FlagsFollow(flags', regs'["B"])
            /\ flags'["C"] = flags["C"]]_vars

\* the second INB after LBI 254 has wrapped B from 255 to 0
C19_Witness ==
    /\ phase = "execute" /\ iter = 3 /\ regs["B"] = 0
    /\ Tokenize(assembly_code) = <<"LBI", "254", "INB", "INB", "INB", "HLT">>
    /\ flags["Z"] = 1 /\ flags["S"] = 0 /\ flags["P"] = 1 /\ flags["C"] = 0

\* C20: every bytecode that assemble returns holds bytes in 0..255 only, and
\* loading and running it raises nothing.
C20_AssembledIsLoadable ==
    Assembled /\ ~bytecode.none =>
        /\ \A k \in 1..Len(bytecode.bytes) : bytecode.bytes[k] \in 0..255
        /\ raised = ""

====
